---- MODULE Spec2Model ----
(***************************************************************************)
(* Model of the JARVIS coordinator (src/jarvis/network/server.py):         *)
(* ClientManager (agent registry), CommandRouter (result correlation) and  *)
(* the JarvisServer RPC handlers; of the agent's CommandExecutor           *)
(* (src/jarvis/network/client.py); and of the CertificateAuthority         *)
(* (src/jarvis/security/pki.py).                                           *)
(*                                                                         *)
(* Scheduling.  All handlers are asyncio coroutines on one event loop.  A  *)
(* coroutine is suspended only where it really awaits something pending:   *)
(* ClientManager never awaits while holding its lock, so its lock is never *)
(* contended and every ClientManager call, and every handler made only of  *)
(* such calls, runs to completion without interleaving.  Spec models that. *)
(* SpecLock is the coarser assumption of the design (tasks interleave at   *)
(* every lock boundary): there a heartbeat is three steps.  SpecReport     *)
(* does the same for handle_result, which holds the router lock while the  *)
(* callback of the command runs.                                           *)
(*                                                                         *)
(* secrets.token_urlsafe(32) and uuid.uuid4() are modelled as fresh values *)
(* drawn from counters (collisions are not modelled).                      *)
(***************************************************************************)
EXTENDS Integers, Sequences, FiniteSets, TLC

\* ---------------------------------------------------------------- bounds
MaxTokens == 3     \* registrations performed in one behaviour
MaxCmds   == 2     \* commands created in one behaviour
MaxTime   == 31    \* the clock stops here
MaxCalls  == 2     \* heartbeat calls in flight at once (SpecLock)
MaxReports == 2    \* results reported for one command id
MaxLen    == 3     \* characters of a shell command string
MaxRoots  == 2     \* root key pairs generated in one behaviour
MaxTasks  == 4     \* heartbeat tasks the agent creates in one behaviour
MaxOutages == 2    \* times the agent's link to the coordinator goes down
MaxHandlers == 2   \* command-result handlers registered with the server

\* ------------------------------------------------------ program constants
HeartbeatTimeout == 30
PollIterations   == 300

\* ---------------------------------------------------------------- inputs
AgentIds     == {"a1", "a2"}
NoClientId   == ""                      \* client_info without client_id
Hostnames    == {"PC", "a1"}
AuthInputs   == {"T1", "bad", ""}       \* "" is a request without auth_token
AuthConfigs  == {{}, {"T1"}}            \* network.auth_tokens
Statuses     == {"empty", "cpu10"}      \* {} and {cpu: 10}
Targets      == {"a1", "a2", "pc", "all"}
Priorities   == {0, 1}
CommandTypes == {"speak"}
Results      == {"ok", "fail"}          \* success flag of a reported result
CallOutcomes == {"returns", "raises"}   \* what a callback or a handler does when called
TickSteps    == {HeartbeatTimeout, HeartbeatTimeout + 1}  \* seconds elapsing between events
None         == "None"
NoToken      == 0                       \* request without session_token
TokenInputs  == 0..MaxTokens
CmdIds       == 1..MaxCmds

\* the agent's inputs
Chars          == {"r", "m"}
Strings        == UNION {[1..n -> Chars] : n \in 0..MaxLen}
HandlerTypes   == {"shell", "execute", "app", "speak", "screen_capture",
                   "file_read", "file_write", "system", "message"}
ExecuteTypes   == {"shell", "execute", "message", "bogus"}  \* "bogus" has no handler
NoDict         == [is_dict |-> FALSE, has_command |-> FALSE, command |-> <<>>]
Payloads       == {NoDict, [is_dict |-> TRUE, has_command |-> FALSE, command |-> <<>>]}
                     \cup {[is_dict |-> TRUE, has_command |-> TRUE, command |-> c] : c \in Strings}
NoConfig       == [has_blocked |-> FALSE, blocked_commands |-> <<>>]
BlockedConfigs == {NoConfig} \cup
                  {[has_blocked |-> TRUE, blocked_commands |-> b] :
                      b \in {<<>>, << <<"m", "m">>, <<"r">> >>, << <<>> >>}}
ShellOutcomes  == {"exit0", "exit1", "timeout", "oserror"}  \* what the subprocess does
OtherOutcomes  == {"done", "failed"}                        \* what another handler reports

\* the certificate authority's inputs
NoRoot       == 0                       \* None as key or certificate, an absent file
ForeignRoot  == MaxRoots + 1            \* the root of another authority
CertKinds    == {"server", "client"}
CertPaths    == {"server", "client", "foreign", "missing"}
InitOutcomes == {"ok", "mkdir_fails", "keygen_fails", "key_write_fails",
                 "cert_write_fails", "key_load_fails", "cert_load_fails"}
GenOutcomes  == {"ok", "fails", "ca_copy_fails"}
CertIds      == {"a1", "a2"}            \* client_id of generate_client_cert
CertHosts    == {"None", "a1", "h1"}    \* hostname of generate_client_cert
ServerHost   == "jarvis-server"         \* hostname of generate_server_cert
KeyFiles     == {"ca.key", "server.key", "client.key"}
\* the mode open(path, "wb") gives a new file: 0o666 less the process umask
\* (077, 027, 022)
UmaskModes   == {"0600", "0640", "0644"}

\* the listener's and the agent's inputs
TlsConfigs     == [enabled : BOOLEAN, allow_insecure : BOOLEAN]   \* network.tls
ServerFiles    == {"present", "missing", "unreadable"}   \* server.crt and server.key
ClientConfigs  == [tls_enabled : BOOLEAN, allow_insecure : BOOLEAN,
                   auto_reconnect : BOOLEAN]
Credentials    == {"loaded", "none"}      \* what _load_tls_credentials returns
ConnectOutcomes == {"ok", "auth_fails", "channel_fails"}
SendOutcomes   == {"ok", "error"}         \* the heartbeat RPC returns or raises
TaskIds        == 1..MaxTasks

\* ConnectionState
CS_DISCONNECTED   == "disconnected"
CS_CONNECTING     == "connecting"
CS_AUTHENTICATING == "authenticating"
CS_CONNECTED      == "connected"
CS_RECONNECTING   == "reconnecting"

\* ClientState
CONNECTING    == "connecting"
AUTHENTICATED == "authenticated"
ACTIVE        == "active"
IDLE          == "idle"
DISCONNECTED  == "disconnected"

VARIABLES
    clients,           \* ClientManager.clients: client_id -> ConnectedClient
    order,             \* insertion order of the clients dict
    sessions,          \* ClientManager.sessions: session_token -> client_id
    auth_tokens,       \* JarvisServer.auth_tokens
    command_results,   \* CommandRouter.command_results
    result_callbacks,  \* CommandRouter.result_callbacks (ids with a callback)
    waiters,           \* execute_on_client calls: command_id -> poll state
    calls,             \* heartbeat calls in flight (SpecLock)
    reports,           \* handle_command_result calls in flight (SpecReport)
    now,               \* datetime.now(), in seconds
    nextToken,         \* next fresh session token
    nextCmd,           \* next fresh command id
    reply,             \* the last response of an RPC handler, where a
                       \* specification observes responses
    h_eligible,        \* history: broadcast command_id -> agents not DISCONNECTED when
                       \*          it was sent and not registered again since
    h_enqueued,        \* history: agent -> command ids ever queued for it
    h_dropped,         \* history: agent -> command ids queued for it, not yet returned
                       \*          when it registered again
    h_delivered,       \* history: <<agent, command_id>> -> times returned by a heartbeat
    h_reported,        \* history: command_id -> how many results were reported, and the last
    h_called,          \* history: command_id -> times its callback was invoked
    h_missed,          \* history: agent -> command ids in its queue when it became
                       \*          DISCONNECTED
    executor,          \* the agent's CommandExecutor and its last execute() call
    pki,               \* the CertificateAuthority, its files and its last call
    node,              \* JarvisServer.start: the port it opened and what it logged
    agent,             \* the agent's JarvisClient and its heartbeat tasks
    disk               \* the private-key files and the issuing call that writes them

hvars == <<h_eligible, h_enqueued, h_dropped, h_delivered, h_reported, h_called,
           h_missed>>
\* the coordinator
svars == <<clients, order, sessions, auth_tokens, command_results,
           result_callbacks, waiters, calls, reports, now, nextToken, nextCmd,
           reply, hvars>>
\* the coordinator's listener, the agent's connection, the key files
ovars == <<node, agent, disk>>
vars == <<svars, executor, pki, ovars>>

\* ------------------------------------------------------------ dict helpers
Put(f, k, v) == [x \in (DOMAIN f) \cup {k} |-> IF x = k THEN v ELSE f[x]]
Del(f, k)    == [x \in (DOMAIN f) \ {k} |-> f[x]]
EmptyMap     == [x \in {} |-> None]
Range(s)     == {s[i] : i \in DOMAIN s}

\* str.lower() on the strings of the model
Lower(s) == IF s = "PC" THEN "pc" ELSE s

\* bool(status): an empty dict is falsy
Truthy(status) == status # "empty"

\* ============================================================ ClientManager

\* ConnectedClient as built by register_client
NewClient(hostname, session_token) ==
    [hostname         |-> hostname,
     state            |-> AUTHENTICATED,
     session_token    |-> session_token,
     last_heartbeat   |-> now,
     last_status      |-> None,
     pending_commands |-> <<>>]

\* mutant: a record that is replaced hands its queue over to the new record
ClientsAfterRegister_KeepsQueue(client_id, hostname, session_token) ==
    Put(clients, client_id,
        [NewClient(hostname, session_token) EXCEPT
            !.pending_commands = IF client_id \in DOMAIN clients
                                 THEN clients[client_id].pending_commands ELSE <<>>])

\* register_client: self.clients[client_id] = client
ClientsAfterRegister(client_id, hostname, session_token) ==
    Put(clients, client_id, NewClient(hostname, session_token))

\* mutant: the session table is replaced by the new entry, not extended
SessionsAfterRegister_Replaced(session_token, client_id) ==
    [t \in {session_token} |-> client_id]

\* register_client: self.sessions[session_token] = client_id
SessionsAfterRegister(session_token, client_id) ==
    Put(sessions, session_token, client_id)

\* a dict keeps the position of a key that is assigned again
OrderAfterRegister(client_id) ==
    IF client_id \in DOMAIN clients THEN order ELSE Append(order, client_id)

\* validate_session: the client_id of the record returned, or None
ValidateSession(session_token) ==
    IF session_token \in DOMAIN sessions /\ sessions[session_token] \in DOMAIN clients
    THEN sessions[session_token]
    ELSE None

\* update_heartbeat: the record after the update
HeartbeatRecord(client, status) ==
    [client EXCEPT !.last_heartbeat = now,
                   !.state = ACTIVE,
                   !.last_status = IF Truthy(status) THEN status ELSE @]

\* update_heartbeat
ClientsAfterHeartbeat(client_id, status) ==
    IF client_id \in DOMAIN clients
    THEN [clients EXCEPT ![client_id] = HeartbeatRecord(@, status)]
    ELSE clients

\* get_pending_commands: the list returned
PendingReturned(cl, client_id) ==
    IF client_id \in DOMAIN cl THEN cl[client_id].pending_commands ELSE <<>>

\* mutant: the queue is returned but not cleared
QueueAfterDrain_Kept(queue) == queue

\* get_pending_commands: the queue left behind (pending_commands.clear())
QueueAfterDrain(queue) == <<>>

\* get_pending_commands
ClientsAfterDrain(cl, client_id) ==
    IF client_id \in DOMAIN cl
    THEN [cl EXCEPT ![client_id].pending_commands = QueueAfterDrain(@)]
    ELSE cl

\* the dict queue_command appends
CommandEntry(command_id, command_type, priority) ==
    [command_id |-> command_id, command_type |-> command_type, priority |-> priority]

\* mutant: the new entry replaces the queue
ClientsAfterQueue_Overwrite(cl, client_id, entry) ==
    IF client_id \in DOMAIN cl
    THEN [cl EXCEPT ![client_id].pending_commands = <<entry>>]
    ELSE cl

\* mutant: an entry with a priority above the default goes to the head
ClientsAfterQueue_ByPriority(cl, client_id, entry) ==
    IF client_id \in DOMAIN cl
    THEN [cl EXCEPT ![client_id].pending_commands =
             IF entry.priority > 0 THEN <<entry>> \o @ ELSE Append(@, entry)]
    ELSE cl

\* queue_command: appends whenever the record exists
ClientsAfterQueue(cl, client_id, entry) ==
    IF client_id \in DOMAIN cl
    THEN [cl EXCEPT ![client_id].pending_commands = Append(@, entry)]
    ELSE cl

\* queue_command: the value returned (True whenever the record exists)
QueueCommandReturn(cl, client_id) == client_id \in DOMAIN cl

\* mutant: a client is stale as soon as the timeout is reached
IsStale_AtTimeout(client) ==
    /\ client.state # DISCONNECTED
    /\ now - client.last_heartbeat >= HeartbeatTimeout

\* cleanup_stale_clients: the stale test
IsStale(client) ==
    /\ client.state # DISCONNECTED
    /\ now - client.last_heartbeat > HeartbeatTimeout

\* cleanup_stale_clients: stale_clients
StaleClients == {a \in DOMAIN clients : IsStale(clients[a])}

\* mutant: the records of the clients of the set D are removed
ClientsAfterDisconnect_Removed(D) ==
    [a \in (DOMAIN clients) \ D |-> clients[a]]

\* disconnect_client / cleanup_stale_clients: what happens to each client of the set D
ClientsAfterDisconnect(D) ==
    [a \in DOMAIN clients |->
        IF a \in D THEN [clients[a] EXCEPT !.state = DISCONNECTED] ELSE clients[a]]

\* del self.sessions[client.session_token] for each client of the set D
SessionsAfterDisconnect(D) ==
    LET gone == {clients[a].session_token : a \in D}
    IN  [t \in (DOMAIN sessions) \ gone |-> sessions[t]]

\* mutant: no filter on the state
GetActiveClients_All == order

\* get_active_clients, in dict order
GetActiveClients ==
    SelectSeq(order, LAMBDA a : clients[a].state \in {ACTIVE, AUTHENTICATED, IDLE})

\* get_client_by_hostname: first match in dict order, or None
RECURSIVE FirstByHostname(_, _)
FirstByHostname(ids, hostname) ==
    IF ids = <<>> THEN None
    ELSE IF Lower(clients[Head(ids)].hostname) = Lower(hostname) THEN Head(ids)
    ELSE FirstByHostname(Tail(ids), hostname)

GetClientByHostname(hostname) == FirstByHostname(order, hostname)

\* ============================================================ CommandRouter

\* mutant: a hostname match is preferred to an id match
Recipients_HostnameFirst(target) ==
    IF target = "all" THEN GetActiveClients
    ELSE IF GetClientByHostname(target) # None THEN <<GetClientByHostname(target)>>
    ELSE IF target \in DOMAIN clients THEN <<target>>
    ELSE <<>>

\* send_command: the clients the command is queued for, in order
Recipients(target) ==
    IF target = "all" THEN GetActiveClients
    ELSE IF target \in DOMAIN clients THEN <<target>>
    ELSE IF GetClientByHostname(target) # None THEN <<GetClientByHostname(target)>>
    ELSE <<>>

\* send_command: queue_command for each recipient
RECURSIVE QueueAll(_, _, _)
QueueAll(cl, ids, entry) ==
    IF ids = <<>> THEN cl
    ELSE QueueAll(ClientsAfterQueue(cl, Head(ids), entry), Tail(ids), entry)

\* mutant: a stored success is never overwritten
ResultsAfterReport_KeepsOk(command_id, result) ==
    IF command_id \in DOMAIN command_results /\ command_results[command_id] = "ok"
    THEN command_results
    ELSE Put(command_results, command_id, result)

\* mutant: a result already stored is kept
ResultsAfterReport_FirstWins(command_id, result) ==
    IF command_id \in DOMAIN command_results
    THEN command_results
    ELSE Put(command_results, command_id, result)

\* handle_result: self.command_results[command_id] = result
ResultsAfterReport(command_id, result) == Put(command_results, command_id, result)

\* mutant: the callback stays registered after it has run
CallbacksAfterReport_Kept(command_id) == result_callbacks

\* handle_result: the callback is popped when there is one
CallbacksAfterReport(command_id) == result_callbacks \ {command_id}

\* history: handle_result calls the callback, when there is one, with the result
CalledAfterReport(command_id, result) ==
    IF command_id \in result_callbacks
    THEN [h_called EXCEPT ![command_id] = [n |-> @.n + 1, arg |-> result]]
    ELSE h_called

\* history: the agents that are not DISCONNECTED
NotDisconnected == {a \in DOMAIN clients : clients[a].state # DISCONNECTED}

\* history: the command ids of a list of entries
Ids(entries) == {entries[i].command_id : i \in DOMAIN entries}

\* send_command; waiter is TRUE when execute_on_client is the caller
DoSend(target, command_type, priority, callback, waiter) ==
    LET command_id == nextCmd
        entry == CommandEntry(command_id, command_type, priority)
        to    == Recipients(target)
    IN  /\ nextCmd <= MaxCmds
        /\ nextCmd' = nextCmd + 1
        /\ result_callbacks' = IF callback THEN result_callbacks \cup {command_id}
                                           ELSE result_callbacks
        /\ clients' = QueueAll(clients, to, entry)
        /\ waiters' = IF waiter
                      THEN Put(waiters, command_id,
                               [left |-> PollIterations, status |-> "waiting", ret |-> None])
                      ELSE waiters
        /\ h_eligible' = IF target = "all"
                         THEN Put(h_eligible, command_id, NotDisconnected)
                         ELSE h_eligible
        /\ h_enqueued' = [a \in AgentIds |->
                            IF a \in Range(to) THEN h_enqueued[a] \cup {command_id}
                                               ELSE h_enqueued[a]]
        /\ h_reported' = Put(h_reported, command_id, [n |-> 0, last |-> None])
        /\ UNCHANGED <<order, sessions, auth_tokens, command_results, calls, reports, now,
                       nextToken, h_dropped, h_delivered, h_called, h_missed,
                   executor, pki, ovars>>

\* send_command: the command_id returned
SendReply == [op |-> "send_command", command_id |-> nextCmd]

\* CommandRouter.send_command
SendCommand(target, command_type, priority, callback) ==
    DoSend(target, command_type, priority, callback, FALSE)

\* JarvisServer.execute_on_client up to its first sleep
ExecuteOnClient(client_id) ==
    DoSend(client_id, "shell", 0, FALSE, TRUE)

\* execute_on_client: one iteration of the wait loop that finds the result,
\* or k iterations in a row that find none
Poll(command_id, k) ==
    /\ command_id \in DOMAIN waiters
    /\ waiters[command_id].status = "waiting"
    /\ IF command_id \in DOMAIN command_results
       THEN /\ waiters' = [waiters EXCEPT ![command_id].status = "returned",
                                          ![command_id].ret = command_results[command_id]]
            /\ command_results' = Del(command_results, command_id)
       ELSE /\ k \in 1..waiters[command_id].left
            /\ waiters' = [waiters EXCEPT
                             ![command_id].left = @ - k,
                             ![command_id].status = IF waiters[command_id].left = k
                                                    THEN "timeout" ELSE "waiting"]
            /\ UNCHANGED command_results
    /\ UNCHANGED <<clients, order, sessions, auth_tokens, result_callbacks, calls, reports, now,
                   nextToken, nextCmd, hvars, executor, pki, ovars>>

\* iterations of the wait loop taken in one step when none finds a result:
\* all that are left, or all but the last one
PollSteps(command_id) ==
    IF command_id \in DOMAIN waiters /\ waiters[command_id].left > 1
    THEN {waiters[command_id].left - 1, waiters[command_id].left}
    ELSE {1}

\* handle_command_result: the response, and whether handle_result ran a callback
ReportReply(session_token, command_id, result) ==
    [op |-> "report_result", received |-> TRUE,
     callback_invoked |-> command_id \in result_callbacks]

\* JarvisServer.handle_command_result with CommandRouter.handle_result
ReportResult(session_token, command_id, result) ==
    /\ command_id < nextCmd
    /\ h_reported[command_id].n < MaxReports
    /\ command_results' = ResultsAfterReport(command_id, result)
    /\ result_callbacks' = CallbacksAfterReport(command_id)
    /\ h_reported' = [h_reported EXCEPT ![command_id] = [n |-> @.n + 1, last |-> result]]
    /\ h_called' = CalledAfterReport(command_id, result)
    /\ UNCHANGED <<clients, order, sessions, auth_tokens, waiters, calls, reports, now,
                   nextToken, nextCmd, h_eligible, h_enqueued, h_dropped, h_delivered, h_missed,
                   executor, pki, ovars>>

\* ============================================================ JarvisServer

\* history: the command ids queued for the agent since it last registered and
\* not yet returned to it
Owed(client_id) ==
    {c \in h_enqueued[client_id] \ h_dropped[client_id] : h_delivered[<<client_id, c>>] = 0}

\* mutant: only a request without a token is rejected
Rejected_MissingOnly(auth_token) == auth_tokens # {} /\ auth_token = ""

\* handle_authenticate: the allow-list test
Rejected(auth_token) == auth_tokens # {} /\ auth_token \notin auth_tokens

\* handle_authenticate: the response, and whether the connected-handlers ran
AuthenticateReply(auth_token, client_id, hostname) ==
    IF Rejected(auth_token)
    THEN [op |-> "authenticate", success |-> FALSE, session_token |-> NoToken,
          error_message |-> "Invalid authentication token", notified |-> FALSE]
    ELSE IF client_id = NoClientId
    THEN [op |-> "authenticate", success |-> FALSE, session_token |-> NoToken,
          error_message |-> "client_id is required", notified |-> FALSE]
    ELSE [op |-> "authenticate", success |-> TRUE, session_token |-> nextToken,
          error_message |-> "", notified |-> TRUE]

\* handle_authenticate with ClientManager.register_client
Authenticate(auth_token, client_id, hostname) ==
    IF Rejected(auth_token) \/ client_id = NoClientId
    THEN /\ UNCHANGED <<clients, order, sessions, auth_tokens, command_results,
                        result_callbacks, waiters, calls, reports, now, nextToken, nextCmd, hvars, executor, pki, ovars>>
    ELSE /\ nextToken <= MaxTokens
         /\ nextToken' = nextToken + 1
         /\ clients' = ClientsAfterRegister(client_id, hostname, nextToken)
         /\ order' = OrderAfterRegister(client_id)
         /\ sessions' = SessionsAfterRegister(nextToken, client_id)
         /\ h_eligible' = [c \in DOMAIN h_eligible |-> h_eligible[c] \ {client_id}]
         /\ h_dropped' = [h_dropped EXCEPT ![client_id] = @ \cup Owed(client_id)]
         /\ UNCHANGED <<auth_tokens, command_results, result_callbacks, waiters, calls, reports,
                        now, nextCmd, h_enqueued, h_delivered, h_reported, h_called, h_missed,
                   executor, pki, ovars>>

\* history: one more delivery of each returned command to the agent
Delivered(client_id, pending) ==
    [p \in AgentIds \X CmdIds |->
        IF p[1] = client_id /\ p[2] \in Ids(pending)
        THEN h_delivered[p] + 1 ELSE h_delivered[p]]

\* handle_heartbeat: the response
HeartbeatReply(session_token, status) ==
    LET client_id == ValidateSession(session_token)
    IN  IF client_id = None
        THEN [op |-> "heartbeat", success |-> FALSE, pending_commands |-> <<>>]
        ELSE [op |-> "heartbeat", success |-> TRUE,
              pending_commands |->
                  PendingReturned(ClientsAfterHeartbeat(client_id, status), client_id)]

\* handle_heartbeat
Heartbeat(session_token, status) ==
    LET client_id == ValidateSession(session_token)
        updated   == ClientsAfterHeartbeat(client_id, status)
        pending   == PendingReturned(updated, client_id)
    IN  IF client_id = None
        THEN /\ UNCHANGED <<clients, order, sessions, auth_tokens, command_results,
                            result_callbacks, waiters, calls, reports, now, nextToken, nextCmd,
                            hvars, executor, pki, ovars>>
        ELSE /\ clients' = ClientsAfterDrain(updated, client_id)
             /\ h_delivered' = Delivered(client_id, pending)
             /\ UNCHANGED <<order, sessions, auth_tokens, command_results,
                            result_callbacks, waiters, calls, reports, now, nextToken, nextCmd,
                            h_eligible, h_enqueued, h_dropped, h_reported, h_called, h_missed,
                   executor, pki, ovars>>

\* history: the commands queued for the agents of D that become DISCONNECTED
MissedAfterDisconnect(D) ==
    [a \in AgentIds |->
        IF a \in D /\ a \in DOMAIN clients /\ clients[a].state # DISCONNECTED
        THEN h_missed[a] \cup Ids(clients[a].pending_commands)
        ELSE h_missed[a]]

\* ClientManager.disconnect_client
Disconnect(client_id) ==
    /\ clients' = IF client_id \in DOMAIN clients
                  THEN ClientsAfterDisconnect({client_id}) ELSE clients
    /\ sessions' = IF client_id \in DOMAIN clients
                   THEN SessionsAfterDisconnect({client_id}) ELSE sessions
    /\ h_missed' = MissedAfterDisconnect({client_id})
    /\ UNCHANGED <<order, auth_tokens, command_results, result_callbacks, waiters,
                   calls, reports, now, nextToken, nextCmd, h_eligible, h_enqueued,
                   h_dropped, h_delivered, h_reported, h_called, executor, pki, ovars>>

\* cleanup_stale_clients returns nothing; it logs the clients that timed out
SweepReply == [op |-> "cleanup_stale_clients", timed_out |-> StaleClients]

\* ClientManager.cleanup_stale_clients
Sweep ==
    /\ clients' = ClientsAfterDisconnect(StaleClients)
    /\ sessions' = SessionsAfterDisconnect(StaleClients)
    /\ h_missed' = MissedAfterDisconnect(StaleClients)
    /\ UNCHANGED <<order, auth_tokens, command_results, result_callbacks, waiters,
                   calls, reports, now, nextToken, nextCmd, h_eligible, h_enqueued,
                   h_dropped, h_delivered, h_reported, h_called, executor, pki, ovars>>

\* time passes
Tick(d) ==
    /\ now + d <= MaxTime
    /\ now' = now + d
    /\ UNCHANGED <<clients, order, sessions, auth_tokens, command_results,
                   result_callbacks, waiters, calls, reports, nextToken, nextCmd, hvars, executor, pki, ovars>>

\* ------------------------------------------------- handle_heartbeat in steps

IdleCall == [pc |-> "idle", client_id |-> None, status |-> "empty"]

\* handle_heartbeat up to validate_session, as call i
HbValidate(i, session_token, status) ==
    LET client_id == ValidateSession(session_token)
    IN  /\ calls[i].pc = "idle"
        /\ IF client_id = None
           THEN UNCHANGED calls
           ELSE calls' = [calls EXCEPT ![i] = [pc |-> "update",
                                               client_id |-> client_id,
                                               status |-> status]]
        /\ UNCHANGED <<clients, order, sessions, auth_tokens, command_results,
                       result_callbacks, waiters, reports, now, nextToken, nextCmd, hvars, executor, pki, ovars>>

\* handle_heartbeat: update_heartbeat, as call i
HbUpdate(i) ==
    /\ calls[i].pc = "update"
    /\ clients' = ClientsAfterHeartbeat(calls[i].client_id, calls[i].status)
    /\ calls' = [calls EXCEPT ![i].pc = "drain"]
    /\ UNCHANGED <<order, sessions, auth_tokens, command_results, result_callbacks,
                   waiters, reports, now, nextToken, nextCmd, hvars, executor, pki, ovars>>

\* handle_heartbeat: get_pending_commands and the response, as call i
HbDrain(i) ==
    LET client_id == calls[i].client_id
        pending   == PendingReturned(clients, client_id)
    IN  /\ calls[i].pc = "drain"
        /\ clients' = ClientsAfterDrain(clients, client_id)
        /\ calls' = [calls EXCEPT ![i] = IdleCall]
        /\ h_delivered' = Delivered(client_id, pending)
        /\ UNCHANGED <<order, sessions, auth_tokens, command_results, result_callbacks,
                       waiters, reports, now, nextToken, nextCmd, h_eligible, h_enqueued,
                       h_dropped, h_reported, h_called, h_missed,
                   executor, pki, ovars>>

\* -------------------------------------------- handle_command_result in steps

IdleReport == [pc |-> "idle", command_id |-> 0, result |-> None]

\* CommandRouter._lock is held by a handle_result call whose callback is running
RouterLockHeld == \E i \in 1..MaxCalls : reports[i].pc = "callback"

\* handle_command_result is called, as call i, and asks for the router's lock
ReportCall(i, command_id, result) ==
    /\ reports[i].pc = "idle"
    /\ command_id < nextCmd
    /\ h_reported[command_id].n
          + Cardinality({j \in 1..MaxCalls : reports[j].command_id = command_id})
          < MaxReports
    /\ reports' = [reports EXCEPT ![i] = [pc |-> "lock", command_id |-> command_id,
                                          result |-> result]]
    /\ UNCHANGED <<clients, order, sessions, auth_tokens, command_results,
                   result_callbacks, waiters, calls, now, nextToken, nextCmd, hvars, executor, pki, ovars>>

\* handle_result, as call i: the lock is taken, the result stored and the
\* callback popped and started; without a callback the call ends here
ReportHandle(i) ==
    LET command_id == reports[i].command_id
        result     == reports[i].result
    IN  /\ reports[i].pc = "lock"
        /\ ~RouterLockHeld
        /\ command_results' = ResultsAfterReport(command_id, result)
        /\ result_callbacks' = CallbacksAfterReport(command_id)
        /\ h_reported' = [h_reported EXCEPT
                             ![command_id] = [n |-> @.n + 1, last |-> result]]
        /\ h_called' = CalledAfterReport(command_id, result)
        /\ reports' = [reports EXCEPT ![i] = IF command_id \in result_callbacks
                                             THEN [@ EXCEPT !.pc = "callback"]
                                             ELSE IdleReport]
        /\ UNCHANGED <<clients, order, sessions, auth_tokens, waiters, calls, now,
                       nextToken, nextCmd, h_eligible, h_enqueued, h_dropped, h_delivered, h_missed,
                   executor, pki, ovars>>

\* the callback of call i returns: the lock is released and the call ends
ReportReturn(i) ==
    /\ reports[i].pc = "callback"
    /\ reports' = [reports EXCEPT ![i] = IdleReport]
    /\ UNCHANGED <<clients, order, sessions, auth_tokens, command_results,
                   result_callbacks, waiters, calls, now, nextToken, nextCmd, hvars, executor, pki, ovars>>

\* ==================================================== CertificateAuthority

\* what the last call returned
Ret(op, value) == [op |-> op, value |-> value]

\* a certificate: the root key that signed it, the root named as issuer, the
\* subject's common name, the directory under cert_dir it is stored in and
\* the root certificate copied next to it
NoCert ==
    [signed_by |-> NoRoot, issuer |-> NoRoot, cn |-> "", dir |-> "", ca_copy |-> NoRoot]
ForeignCert ==
    [signed_by |-> ForeignRoot, issuer |-> ForeignRoot, cn |-> "", dir |-> "",
     ca_copy |-> NoRoot]

\* generate_client_cert: hostname = hostname or client_id
CommonName(kind, client_id, hostname) ==
    IF kind = "server" THEN ServerHost
    ELSE IF hostname = "None" THEN client_id ELSE hostname

\* the directory the leaf is written to: cert_dir, or cert_dir/clients/<id>
LeafDir(kind, client_id) ==
    IF kind = "server" THEN "" ELSE "clients/" \o client_id

\* the leaf as the files hold it when the step named by outcome has failed
IssuedLeaf(kind, client_id, hostname, outcome) ==
    [signed_by |-> pki.ca_key,
     issuer    |-> pki.ca_cert,
     cn        |-> CommonName(kind, client_id, hostname),
     dir       |-> LeafDir(kind, client_id),
     ca_copy   |-> IF kind = "client" /\ outcome = "ok" THEN pki.ca_cert ELSE NoRoot]

\* CertificateAuthority.__init__ over an empty cert_dir
NewAuthority ==
    [ca_key    |-> NoRoot,               \* self._ca_key
     ca_cert   |-> NoRoot,               \* self._ca_cert
     key_file  |-> NoRoot,               \* ca.key
     cert_file |-> NoRoot,               \* ca.crt
     leaves    |-> [k \in CertKinds |-> NoCert],   \* server.crt, clients/<id>/client.crt
     next_root |-> 1,
     forced    |-> FALSE,                \* history: the loaded root replaced a stored one
     ret       |-> Ret("init", "none")]

\* CertificateAuthority.__init__ over the cert_dir as it is
NewCA ==
    /\ pki' = [pki EXCEPT !.ca_key = NoRoot, !.ca_cert = NoRoot, !.forced = FALSE,
                          !.ret = Ret("init", "none")]
    /\ UNCHANGED <<svars, executor, ovars>>

\* _load_ca: the key is loaded, then the certificate; a failure keeps what
\* was assigned before it
LoadCa(outcome) ==
    IF outcome = "key_load_fails" THEN [pki EXCEPT !.ret = Ret("initialize", "False")]
    ELSE IF outcome = "cert_load_fails"
    THEN [pki EXCEPT !.ca_key = pki.key_file, !.ret = Ret("initialize", "False")]
    ELSE [pki EXCEPT !.ca_key = pki.key_file, !.ca_cert = pki.cert_file,
                     !.ret = Ret("initialize", "True")]

\* initialize, the generating branch: key, certificate, ca.key, ca.crt in
\* that order; a failure keeps what was assigned and written before it
GenerateCa(outcome) ==
    LET root == pki.next_root
    IN  IF outcome = "keygen_fails" THEN [pki EXCEPT !.ret = Ret("initialize", "False")]
        ELSE IF outcome = "key_write_fails"
        THEN [pki EXCEPT !.ca_key = root, !.ca_cert = root, !.next_root = root + 1,
                         !.ret = Ret("initialize", "False")]
        ELSE IF outcome = "cert_write_fails"
        THEN [pki EXCEPT !.ca_key = root, !.ca_cert = root, !.next_root = root + 1,
                         !.key_file = root, !.ret = Ret("initialize", "False")]
        ELSE [pki EXCEPT !.ca_key = root, !.ca_cert = root, !.next_root = root + 1,
                         !.key_file = root, !.cert_file = root,
                         !.ret = Ret("initialize", "True")]

\* initialize: the stored root is loaded when both files exist and force is off
LoadsStored(force) == ~force /\ pki.key_file # NoRoot /\ pki.cert_file # NoRoot

\* CertificateAuthority.initialize
Initialize(force, outcome) ==
    /\ pki' = IF outcome = "mkdir_fails" THEN [pki EXCEPT !.ret = Ret("initialize", "raised")]
              ELSE IF LoadsStored(force) THEN [LoadCa(outcome) EXCEPT !.forced = FALSE]
              ELSE [GenerateCa(outcome) EXCEPT
                       !.forced = force /\ outcome = "ok" /\ pki.cert_file # NoRoot]
    /\ (outcome # "mkdir_fails" /\ ~LoadsStored(force)) => pki.next_root <= MaxRoots
    /\ UNCHANGED <<svars, executor, ovars>>

\* generate_server_cert / generate_client_cert: the leaf is signed with
\* self._ca_key and names self._ca_cert.subject as its issuer
GenerateCert(kind, client_id, hostname, outcome) ==
    /\ pki' = IF pki.ca_key = NoRoot \/ pki.ca_cert = NoRoot
              THEN [pki EXCEPT !.ret = Ret("generate_cert", "none_pair")]
              ELSE IF outcome = "fails"
              THEN [pki EXCEPT !.ret = Ret("generate_cert", "none_pair")]
              ELSE [pki EXCEPT
                      !.leaves[kind] = IssuedLeaf(kind, client_id, hostname, outcome),
                      !.ret = Ret("generate_cert",
                                  IF kind = "client" /\ outcome = "ca_copy_fails"
                                  THEN "none_pair" ELSE "paths")]
    /\ UNCHANGED <<svars, executor, ovars>>

\* the file at cert_path
CertAt(cert_path) ==
    IF cert_path = "foreign" THEN ForeignCert
    ELSE IF cert_path = "missing" THEN NoCert
    ELSE pki.leaves[cert_path]

\* verify_certificate: the arguments it passes to public_key().verify
VerifyArgs(cert) ==
    <<"cert.signature", "cert.tbs_certificate_bytes", "cert.signature_algorithm_parameters">>

\* RSAPublicKey.verify(signature, data, padding, algorithm) of the root: it
\* takes four arguments and accepts the signatures made with the root's key
RsaVerify(root, cert, args) ==
    IF Len(args) # 4 THEN "TypeError"
    ELSE IF cert.signed_by = root THEN "ok"
    ELSE "InvalidSignature"

\* verify_certificate: the value returned
VerifyResult(cert_path) ==
    IF pki.ca_cert = NoRoot THEN FALSE
    ELSE IF CertAt(cert_path) = NoCert THEN FALSE
    ELSE RsaVerify(pki.ca_cert, CertAt(cert_path), VerifyArgs(CertAt(cert_path))) = "ok"

\* CertificateAuthority.verify_certificate
VerifyCertificate(cert_path) ==
    /\ pki' = [pki EXCEPT !.ret = Ret("verify_certificate",
                                   IF VerifyResult(cert_path) THEN "True" ELSE "False")]
    /\ UNCHANGED <<svars, executor, ovars>>

\* ------------------------------------------------- the private-key files
\* initialize, generate_server_cert and generate_client_cert in the steps
\* that touch the key file: open(path, "wb"), f.write, os.chmod(path, 0o600)

\* an empty cert_dir and an authority without a root
NewDisk ==
    [mode     |-> [f \in KeyFiles |-> "absent"],   \* permission bits of each key file
     writing  |-> "none",                \* the key file of the call in progress
     has_root |-> FALSE]                 \* self._ca_key and self._ca_cert are set

\* the call that writes key file f may start: initialize generates when ca.key
\* is absent or force is set, the issuing calls need a root
MayWrite(f, force) ==
    IF f = "ca.key" THEN force \/ disk.mode[f] = "absent" ELSE disk.has_root

\* open(path, "wb"): a new file gets the umask's mode, an existing file is
\* truncated and keeps its mode
KeyOpen(f, force, umask_mode) ==
    /\ disk.writing = "none"
    /\ MayWrite(f, force)
    /\ disk' = [disk EXCEPT
                  !.mode[f] = IF disk.mode[f] = "absent" THEN umask_mode ELSE disk.mode[f],
                  !.writing = f,
                  !.has_root = disk.has_root \/ f = "ca.key"]
    /\ UNCHANGED <<svars, executor, pki, node, agent>>

\* f.write raises (a full disk): the except clause returns, chmod is skipped
KeyWriteFails ==
    /\ disk.writing # "none"
    /\ disk' = [disk EXCEPT !.writing = "none"]
    /\ UNCHANGED <<svars, executor, pki, node, agent>>

\* os.chmod(path, 0o600), after which the call no longer touches the key
KeyChmod ==
    /\ disk.writing # "none"
    /\ disk' = [disk EXCEPT !.mode[disk.writing] = "0600", !.writing = "none"]
    /\ UNCHANGED <<svars, executor, pki, node, agent>>

\* ====================================================== JarvisServer.start

\* no error was logged
NoError == -1

\* JarvisServer.__init__: nothing listens yet
NewServer ==
    [tls     |-> [enabled |-> FALSE, allow_insecure |-> FALSE],
     running |-> FALSE,                  \* self._running
     port    |-> "none",                 \* what was added to the gRPC server
     warned  |-> FALSE,                  \* the fallback warning was logged
     cleanup |-> "none",                 \* self._cleanup_task: none, running, done
     last_error |-> NoError,             \* when "Cleanup loop error" was last logged
     on_command_result |-> <<>>]         \* self._on_command_result: what each handler does

\* JarvisServer.__init__ with a network.tls section
ServerInit(tls) ==
    /\ ~node.running
    /\ DOMAIN clients = {}
    /\ node' = [NewServer EXCEPT !.tls = tls]
    /\ UNCHANGED <<svars, executor, pki, agent, disk>>

\* JarvisServer.on_command_result: the handler is appended
OnCommandResult(handler) ==
    /\ Len(node.on_command_result) < MaxHandlers
    /\ node' = [node EXCEPT !.on_command_result = Append(@, handler)]
    /\ UNCHANGED <<svars, executor, pki, agent, disk>>

\* mutant: handle_result has no except clause around the callback
CallbackEscapes_NoExcept(command_id, outcome) ==
    command_id \in result_callbacks /\ outcome = "raises"

\* handle_result: whether an exception of the callback leaves handle_result
\* (except Exception logs it)
CallbackEscapes(command_id, outcome) == FALSE

\* handle_command_result: the handlers that are called, in order, each in its
\* own try; none when handle_result raised
HandlersNotified(command_id, outcome) ==
    IF CallbackEscapes(command_id, outcome) THEN <<>> ELSE node.on_command_result

\* handle_command_result: what the agent and the log see when the callback,
\* if there is one, has the given outcome
ReportOutcome(session_token, command_id, result, outcome) ==
    [op               |-> "report_result",
     received         |-> ~CallbackEscapes(command_id, outcome),
     callback_invoked |-> command_id \in result_callbacks,
     callback_raised  |-> command_id \in result_callbacks /\ outcome = "raises",
     notified         |-> HandlersNotified(command_id, outcome),
     handler_errors   |-> Cardinality({i \in DOMAIN HandlersNotified(command_id, outcome) :
                                          HandlersNotified(command_id, outcome)[i] = "raises"})]

\* start: the port that is added for the configuration and the files found
StartPort(tls, files) ==
    IF tls.enabled
    THEN IF files = "missing" THEN "insecure" ELSE "secure"
    ELSE "insecure"

\* JarvisServer.start; reading an unreadable file raises out of start
\* after _running was set
Start(files) ==
    /\ ~node.running
    /\ node' = IF node.tls.enabled /\ files = "unreadable"
               THEN [node EXCEPT !.running = TRUE, !.cleanup = "running"]
               ELSE [node EXCEPT !.running = TRUE, !.cleanup = "running",
                                 !.port = StartPort(node.tls, files),
                                 !.warned = node.tls.enabled /\ files = "missing"]
    /\ UNCHANGED <<svars, executor, pki, agent, disk>>

\* JarvisServer.stop: the cleanup task is cancelled, the gRPC server stopped
\* and every client disconnected
Stop ==
    /\ node.running
    /\ node' = [node EXCEPT !.running = FALSE, !.cleanup = "done", !.port = "none"]
    /\ clients' = ClientsAfterDisconnect(DOMAIN clients)
    /\ sessions' = SessionsAfterDisconnect(DOMAIN clients)
    /\ h_missed' = MissedAfterDisconnect(DOMAIN clients)
    /\ UNCHANGED <<order, auth_tokens, command_results, result_callbacks, waiters,
                   calls, reports, now, nextToken, nextCmd, reply, h_eligible, h_enqueued,
                   h_dropped, h_delivered, h_reported, h_called, executor, pki, agent, disk>>

\* mutant: an exception ends the loop
NodeAfterSweepError_Stops == [node EXCEPT !.last_error = now, !.cleanup = "done"]

\* _cleanup_loop: except Exception logs the error and the loop goes on
NodeAfterSweepError == [node EXCEPT !.last_error = now]

\* _cleanup_loop, one iteration after its sleep: cleanup_stale_clients
\* returns or raises
CleanupLoop(outcome) ==
    /\ node.cleanup = "running"
    /\ node.running
    /\ IF outcome = "swept"
       THEN Sweep /\ UNCHANGED reply
       ELSE /\ node' = NodeAfterSweepError
            /\ UNCHANGED <<svars, executor, pki, agent, disk>>

\* ============================================================ JarvisClient

\* JarvisClient.__init__
NewJarvisClient ==
    [config  |-> [tls_enabled |-> FALSE, allow_insecure |-> FALSE,
                  auto_reconnect |-> TRUE],
     state   |-> CS_DISCONNECTED,
     session_token  |-> None,            \* self._session_token
     channel |-> "none",                 \* self._channel
     running |-> FALSE,                  \* self._running
     heartbeat_task |-> 0,               \* self._heartbeat_task, 0 for None
     tasks   |-> [i \in TaskIds |-> "unborn"],   \* where each heartbeat task is
     warned  |-> FALSE,                  \* the fallback warning was logged
     link    |-> "up",                   \* whether the coordinator can be reached
     outages |-> 0]                      \* how often the link went down

\* the heartbeat tasks that were created and have not finished
LiveTasks(ag) == {i \in TaskIds : ag.tasks[i] \notin {"unborn", "done"}}
Created(ag)   == {i \in TaskIds : ag.tasks[i] # "unborn"}
NextTask(ag)  == Cardinality(Created(ag)) + 1

\* JarvisClient.__init__ with a ClientConfig
ClientInit(config) ==
    /\ Created(agent) = {}
    /\ agent' = [NewJarvisClient EXCEPT !.config = config, !.link = agent.link,
                                        !.outages = agent.outages]
    /\ UNCHANGED <<svars, executor, pki, node, disk>>

\* connect: the channel that is created
ConnectChannel(config, credentials) ==
    IF config.tls_enabled /\ credentials = "loaded" THEN "secure" ELSE "insecure"

\* connect: the client after the call
Connected(ag, credentials, outcome) ==
    LET warns == ag.config.tls_enabled /\ credentials = "none"
        opened == [ag EXCEPT !.channel = ConnectChannel(ag.config, credentials),
                             !.warned = ag.warned \/ warns]
    IN  IF outcome = "channel_fails" THEN [ag EXCEPT !.state = CS_DISCONNECTED]
        ELSE IF outcome = "auth_fails" THEN [opened EXCEPT !.state = CS_DISCONNECTED]
        ELSE [opened EXCEPT !.state = CS_CONNECTED,
                            !.session_token = "dev-session-token",
                            !.running = TRUE,
                            !.heartbeat_task = NextTask(ag),
                            !.tasks[NextTask(ag)] = "ready"]

\* a connect that succeeds creates a heartbeat task
CanConnect(ag, outcome) == outcome = "ok" => NextTask(ag) <= MaxTasks

\* JarvisClient.connect
Connect(credentials, outcome) ==
    /\ CanConnect(agent, outcome)
    /\ agent' = Connected(agent, credentials, outcome)
    /\ UNCHANGED <<svars, executor, pki, node, disk>>

\* JarvisClient.disconnect: the task in _heartbeat_task is cancelled
ClientDisconnect ==
    /\ agent' = [agent EXCEPT
                   !.running = FALSE,
                   !.tasks = [i \in TaskIds |->
                                IF i = agent.heartbeat_task /\ agent.tasks[i] # "unborn"
                                THEN "done" ELSE agent.tasks[i]],
                   !.channel = "none",
                   !.state = CS_DISCONNECTED,
                   !.session_token = None]
    /\ UNCHANGED <<svars, executor, pki, node, disk>>

\* _heartbeat_loop, one iteration of task i: the loop ends when _running is
\* off; a heartbeat that raises starts the wait before a reconnection
HeartbeatLoop(i, outcome) ==
    /\ agent.tasks[i] = "ready"
    /\ agent' = IF ~agent.running THEN [agent EXCEPT !.tasks[i] = "done"]
                ELSE IF outcome = "ok" THEN agent
                ELSE IF agent.config.auto_reconnect
                THEN [agent EXCEPT !.state = CS_RECONNECTING, !.tasks[i] = "backoff"]
                ELSE agent
    /\ UNCHANGED <<svars, executor, pki, node, disk>>

\* _heartbeat_loop after reconnect_delay: _try_reconnect calls connect, and
\* the loop of task i goes on whatever connect returned
TryReconnect(i, credentials, outcome) ==
    /\ agent.tasks[i] = "backoff"
    /\ CanConnect(agent, outcome)
    /\ agent' = [Connected(agent, credentials, outcome) EXCEPT !.tasks[i] = "ready"]
    /\ UNCHANGED <<svars, executor, pki, node, disk>>

\* the coordinator becomes unreachable, and reachable again
LinkDown ==
    /\ agent.link = "up"
    /\ agent.outages < MaxOutages
    /\ agent' = [agent EXCEPT !.link = "down", !.outages = @ + 1]
    /\ UNCHANGED <<svars, executor, pki, node, disk>>

LinkUp ==
    /\ agent.link = "down"
    /\ agent' = [agent EXCEPT !.link = "up"]
    /\ UNCHANGED <<svars, executor, pki, node, disk>>

\* what the RPCs do when nothing but the link decides it
SendByLink    == IF agent.link = "up" THEN "ok" ELSE "error"
ConnectByLink == IF agent.link = "up" THEN "ok" ELSE "auth_fails"

\* ========================================================= CommandExecutor

\* no execute() call yet
NoCall   == [command_type |-> "none", payload |-> NoDict]
NoResult == [kind |-> "none", success |-> FALSE, error |-> "", duration_ms |-> FALSE]

\* the default of config.get("blocked_commands", [...]), in the model's alphabet
DefaultBlocked == << <<"r", "m">>, <<"m", "m", "m">> >>

\* CommandExecutor.__init__
NewExecutor(config) ==
    [blocked_commands |-> IF config.has_blocked THEN config.blocked_commands
                                                ELSE DefaultBlocked,
     call    |-> NoCall,
     result  |-> NoResult,
     spawned |-> FALSE]

\* `blocked in command` on strings: blocked is a contiguous part of command
Contains(command, blocked) ==
    \E i \in 0..(Len(command) - Len(blocked)) :
        SubSeq(command, i + 1, i + Len(blocked)) = blocked

\* mutant: a pattern blocks only the command equal to it
FirstBlocked_Equal(blocked_commands, command) ==
    LET hits == {i \in DOMAIN blocked_commands : blocked_commands[i] = command}
    IN  IF hits = {} THEN 0 ELSE CHOOSE i \in hits : \A j \in hits : i <= j

\* _execute_shell: the position of the first blocked pattern found in command, or 0
FirstBlocked(blocked_commands, command) ==
    LET hits == {i \in DOMAIN blocked_commands : Contains(command, blocked_commands[i])}
    IN  IF hits = {} THEN 0 ELSE CHOOSE i \in hits : \A j \in hits : i <= j

\* what a handler does: it returns a result dict or raises, and may have
\* started a subprocess
Returns(success, error, spawned) ==
    [kind |-> "return", success |-> success, error |-> error, duration_ms |-> FALSE,
     spawned |-> spawned]
Raises(error, spawned) ==
    [kind |-> "raise", success |-> FALSE, error |-> error, duration_ms |-> FALSE,
     spawned |-> spawned]

\* payload.get("command", "")
PayloadCommand(payload) == IF payload.has_command THEN payload.command ELSE <<>>

\* CommandExecutor._execute_shell
ExecuteShell(payload, outcome) ==
    IF ~payload.is_dict THEN Raises("AttributeError", FALSE)
    ELSE IF FirstBlocked(executor.blocked_commands, PayloadCommand(payload)) # 0
    THEN Returns(FALSE, "Blocked command pattern", FALSE)
    ELSE CASE outcome = "exit0"   -> Returns(TRUE, "", TRUE)
           [] outcome = "exit1"   -> Returns(FALSE, "stderr", TRUE)
           [] outcome = "timeout" -> Returns(FALSE, "Command timed out", TRUE)
           [] OTHER               -> Returns(FALSE, "OSError", TRUE)

\* the other handlers of the table: each reads its payload with payload.get
\* and returns a result dict
ExecuteOther(payload, outcome) ==
    IF ~payload.is_dict THEN Raises("AttributeError", FALSE)
    ELSE IF outcome = "done" THEN Returns(TRUE, "", FALSE)
    ELSE Returns(FALSE, "handler error", FALSE)

\* self._handlers[command_type](payload)
Handler(command_type, payload, outcome) ==
    IF command_type \in {"shell", "execute"}
    THEN ExecuteShell(payload, outcome)
    ELSE ExecuteOther(payload, outcome)

\* the outcomes the handler of a command type can have
OutcomesOf(command_type) ==
    IF command_type \in {"shell", "execute"} THEN ShellOutcomes ELSE OtherOutcomes

\* mutant: execute has no except clause
Caught_Propagates(handled) == [handled EXCEPT !.duration_ms = (handled.kind = "return")]

\* execute: result["duration_ms"] is set, and an exception of the handler
\* becomes a failure result
Caught(handled) ==
    IF handled.kind = "raise"
    THEN [handled EXCEPT !.kind = "return", !.success = FALSE, !.duration_ms = TRUE]
    ELSE [handled EXCEPT !.duration_ms = TRUE]

\* CommandExecutor.execute: what the call returns
ExecuteResult(command_type, payload, outcome) ==
    IF command_type \notin HandlerTypes
    THEN Returns(FALSE, "Unknown command type", FALSE)
    ELSE Caught(Handler(command_type, payload, outcome))

\* the agent is constructed with a configuration
Configure(config) ==
    /\ executor' = NewExecutor(config)
    /\ UNCHANGED <<svars, pki, ovars>>

\* CommandExecutor.execute
Execute(command_type, payload, outcome) ==
    LET result == ExecuteResult(command_type, payload, outcome)
    IN  /\ executor' = [executor EXCEPT
                           !.call    = [command_type |-> command_type, payload |-> payload],
                           !.result  = [kind |-> result.kind, success |-> result.success,
                                        error |-> result.error,
                                        duration_ms |-> result.duration_ms],
                           !.spawned = result.spawned]
        /\ UNCHANGED <<svars, pki, ovars>>

\* ================================================================== Spec

Init ==
    /\ clients = EmptyMap
    /\ order = <<>>
    /\ sessions = EmptyMap
    /\ auth_tokens \in AuthConfigs
    /\ command_results = EmptyMap
    /\ result_callbacks = {}
    /\ waiters = EmptyMap
    /\ calls = [i \in 1..MaxCalls |-> IdleCall]
    /\ reports = [i \in 1..MaxCalls |-> IdleReport]
    /\ now = 0
    /\ nextToken = 1
    /\ nextCmd = 1
    /\ reply = [op |-> "init"]
    /\ h_eligible = EmptyMap
    /\ h_enqueued = [a \in AgentIds |-> {}]
    /\ h_dropped = [a \in AgentIds |-> {}]
    /\ h_delivered = [p \in AgentIds \X CmdIds |-> 0]
    /\ h_reported = EmptyMap
    /\ h_called = [c \in CmdIds |-> [n |-> 0, arg |-> None]]
    /\ h_missed = [a \in AgentIds |-> {}]
    /\ executor = NewExecutor(NoConfig)
    /\ pki = NewAuthority
    /\ node = NewServer
    /\ agent = NewJarvisClient
    /\ disk = NewDisk

\* every operation, every input, every response observed
Next ==
    \/ \E t \in AuthInputs, a \in AgentIds \cup {NoClientId}, h \in Hostnames :
          Authenticate(t, a, h) /\ reply' = AuthenticateReply(t, a, h)
    \/ \E t \in TokenInputs, s \in Statuses :
          Heartbeat(t, s) /\ reply' = HeartbeatReply(t, s)
    \/ \E tg \in Targets, ty \in CommandTypes, p \in Priorities, cb \in BOOLEAN :
          SendCommand(tg, ty, p, cb) /\ UNCHANGED reply
    \/ \E tg \in Targets : ExecuteOnClient(tg) /\ UNCHANGED reply
    \/ \E c \in CmdIds : \E k \in PollSteps(c) : Poll(c, k) /\ UNCHANGED reply
    \/ \E t \in TokenInputs, c \in CmdIds, r \in Results :
          ReportResult(t, c, r) /\ reply' = ReportReply(t, c, r)
    \/ \E a \in AgentIds : Disconnect(a) /\ UNCHANGED reply
    \/ Sweep /\ reply' = SweepReply
    \/ \E d \in TickSteps : Tick(d) /\ UNCHANGED reply

Spec == Init /\ [][Next]_vars

\* the registry: registration, sessions, liveness (authentication disabled,
\* only the sweep's log observed)
NextRegistry ==
    \/ \E a \in AgentIds : Authenticate("", a, "PC") /\ UNCHANGED reply
    \/ \E t \in TokenInputs : Heartbeat(t, "cpu10") /\ UNCHANGED reply
    \/ SendCommand("a1", "speak", 0, FALSE) /\ UNCHANGED reply
    \/ \E a \in AgentIds : Disconnect(a) /\ UNCHANGED reply
    \/ Sweep /\ reply' = SweepReply
    \/ \E d \in TickSteps : Tick(d) /\ UNCHANGED reply

\* a server configured without auth_tokens: any agent may register
InitOpen == Init /\ auth_tokens = {}

SpecRegistry == InitOpen /\ [][NextRegistry]_vars

\* the agent-facing handlers of the registry, with and without an allow-list
NextAuth ==
    \/ \E t \in AuthInputs, a \in AgentIds \cup {NoClientId}, h \in Hostnames :
          Authenticate(t, a, h) /\ reply' = AuthenticateReply(t, a, h)
    \/ \E t \in TokenInputs, s \in Statuses :
          Heartbeat(t, s) /\ reply' = HeartbeatReply(t, s)
    \/ \E a \in AgentIds : Disconnect(a) /\ UNCHANGED reply

SpecAuth == Init /\ [][NextAuth]_vars

\* the pending queues: enqueue, broadcast, delivery (authentication disabled,
\* responses not observed)
NextQueue ==
    \/ \E a \in AgentIds : Authenticate("", a, "PC") /\ UNCHANGED reply
    \/ \E t \in TokenInputs : Heartbeat(t, "cpu10") /\ UNCHANGED reply
    \/ \E tg \in {"a1", "all"} : SendCommand(tg, "speak", 0, FALSE) /\ UNCHANGED reply
    \/ Disconnect("a1") /\ UNCHANGED reply

SpecQueue == InitOpen /\ [][NextQueue]_vars

\* the pending queue of one agent under heartbeats that interleave at every
\* lock boundary
NextLock ==
    \/ Authenticate("", "a1", "PC") /\ UNCHANGED reply
    \/ \E i \in 1..MaxCalls : \E t \in TokenInputs :
          HbValidate(i, t, "cpu10") /\ UNCHANGED reply
    \/ \E i \in 1..MaxCalls : HbUpdate(i) /\ UNCHANGED reply
    \/ \E i \in 1..MaxCalls : HbDrain(i) /\ UNCHANGED reply
    \/ \E tg \in {"a1", "all"} : SendCommand(tg, "speak", 0, FALSE) /\ UNCHANGED reply
    \/ Disconnect("a1") /\ UNCHANGED reply

SpecLock == InitOpen /\ [][NextLock]_vars

\* result correlation: reports, callbacks and blocking callers (no agent
\* registers: every command is sent to a target that is not found)
NextRouter ==
    \/ SendCommand("a1", "speak", 0, TRUE) /\ UNCHANGED reply
    \/ ExecuteOnClient("a1") /\ UNCHANGED reply
    \/ \E c \in CmdIds : \E k \in PollSteps(c) : Poll(c, k) /\ UNCHANGED reply
    \/ \E t \in TokenInputs, c \in CmdIds, r \in Results :
          ReportResult(t, c, r) /\ reply' = ReportReply(t, c, r)

SpecRouter == InitOpen /\ [][NextRouter]_vars

\* reports of results that interleave at the router's lock and while a
\* callback runs
NextReport ==
    \/ \E cb \in BOOLEAN : SendCommand("a1", "speak", 0, cb) /\ UNCHANGED reply
    \/ \E i \in 1..MaxCalls, c \in CmdIds, r \in Results :
          ReportCall(i, c, r) /\ UNCHANGED reply
    \/ \E i \in 1..MaxCalls : ReportHandle(i) /\ UNCHANGED reply
    \/ \E i \in 1..MaxCalls : ReportReturn(i) /\ UNCHANGED reply

SpecReport == InitOpen /\ [][NextReport]_vars

\* target resolution: agents whose ids and hostnames overlap, sends by id
\* and by hostname
NextTarget ==
    \/ \E a \in AgentIds, h \in Hostnames : Authenticate("", a, h) /\ UNCHANGED reply
    \/ \E tg \in Targets \ {"all"} :
          SendCommand(tg, "speak", 0, FALSE) /\ reply' = SendReply
    \/ Disconnect("a1") /\ UNCHANGED reply

SpecTarget == InitOpen /\ [][NextTarget]_vars

\* the agent's executor: every handler, payload and outcome of the handler
NextExecutor ==
    \/ \E b \in BlockedConfigs : Configure(b)
    \/ \E ty \in ExecuteTypes, p \in Payloads : \E o \in OutcomesOf(ty) :
          Execute(ty, p, o)

SpecExecutor == InitOpen /\ [][NextExecutor]_vars

\* the certificate authority: instances over one cert_dir, with the failures
\* its except clauses handle
NextPki ==
    \/ NewCA
    \/ \E force \in BOOLEAN, o \in InitOutcomes : Initialize(force, o)
    \/ \E o \in GenOutcomes : GenerateCert("server", "None", ServerHost, o)
    \/ \E id \in CertIds, h \in CertHosts, o \in GenOutcomes :
          GenerateCert("client", id, h, o)
    \/ \E p \in CertPaths : VerifyCertificate(p)

SpecPki == InitOpen /\ [][NextPki]_vars

\* the listener and the agent's channel under every TLS configuration
NextTransport ==
    \/ \E tls \in TlsConfigs : ServerInit(tls)
    \/ \E f \in ServerFiles : Start(f)
    \/ \E c \in ClientConfigs : ClientInit(c)
    \/ \E cr \in Credentials, o \in ConnectOutcomes : Connect(cr, o)
    \/ ClientDisconnect

SpecTransport == InitOpen /\ [][NextTransport]_vars

\* the private-key files while the calls that write them are in progress
NextKeyFiles ==
    \/ \E f \in KeyFiles, force \in BOOLEAN, m \in UmaskModes : KeyOpen(f, force, m)
    \/ KeyWriteFails
    \/ KeyChmod

SpecKeyFiles == InitOpen /\ [][NextKeyFiles]_vars

\* an agent reports the result of a command that a heartbeat returned to it
ReportsOwn(session_token, command_id) ==
    /\ ValidateSession(session_token) \in AgentIds
    /\ h_delivered[<<ValidateSession(session_token), command_id>>] > 0

\* commands that wait in the queue of an agent that disconnects, with the
\* callers that wait for their results
NextMiss ==
    \/ \E a \in AgentIds : Authenticate("", a, "PC") /\ UNCHANGED reply
    \/ \E t \in TokenInputs : Heartbeat(t, "cpu10") /\ UNCHANGED reply
    \/ ExecuteOnClient("a1") /\ UNCHANGED reply
    \/ \E c \in CmdIds : \E k \in PollSteps(c) : Poll(c, k) /\ UNCHANGED reply
    \/ \E t \in TokenInputs, c \in CmdIds :
          ReportsOwn(t, c) /\ ReportResult(t, c, "ok") /\ UNCHANGED reply
    \/ Disconnect("a1") /\ UNCHANGED reply
    \/ Sweep /\ UNCHANGED reply
    \/ Tick(HeartbeatTimeout + 1) /\ UNCHANGED reply

SpecMiss == InitOpen /\ [][NextMiss]_vars

\* reports of results to a server with command-result handlers, for commands
\* with and without a callback, under every outcome of callback and handlers
NextCallback ==
    \/ \E h \in CallOutcomes : OnCommandResult(h) /\ UNCHANGED reply
    \/ \E cb \in BOOLEAN : SendCommand("a1", "speak", 0, cb) /\ UNCHANGED reply
    \/ \E c \in CmdIds, r \in Results, o \in CallOutcomes :
          ReportResult(NoToken, c, r) /\ reply' = ReportOutcome(NoToken, c, r, o)

SpecCallback == InitOpen /\ [][NextCallback]_vars

\* the pending queues under commands of every priority, with the response of
\* each heartbeat observed (each agent registers once)
NextFifo ==
    \/ \E a \in AgentIds \ DOMAIN clients : Authenticate("", a, "PC") /\ UNCHANGED reply
    \/ \E t \in TokenInputs : Heartbeat(t, "cpu10") /\ reply' = HeartbeatReply(t, "cpu10")
    \/ \E tg \in {"a1", "all"}, p \in Priorities :
          SendCommand(tg, "speak", p, FALSE) /\ UNCHANGED reply

SpecFifo == InitOpen /\ [][NextFifo]_vars

\* the agent table and the session table under registration, heartbeats,
\* disconnects and sweeps (no command is sent)
NextSessions ==
    \/ \E a \in AgentIds : Authenticate("", a, "PC") /\ UNCHANGED reply
    \/ \E t \in TokenInputs : Heartbeat(t, "cpu10") /\ UNCHANGED reply
    \/ \E a \in AgentIds : Disconnect(a) /\ UNCHANGED reply
    \/ Sweep /\ reply' = SweepReply
    \/ Tick(HeartbeatTimeout + 1) /\ UNCHANGED reply

SpecSessions == InitOpen /\ [][NextSessions]_vars

\* the sweep loop of a started server over agents that registered and sent
\* heartbeats at time 0 and have been silent since
NextSweepLoop ==
    \/ \E f \in ServerFiles : Start(f)
    \/ \E a \in AgentIds : now = 0 /\ Authenticate("", a, "PC") /\ UNCHANGED reply
    \/ \E t \in TokenInputs : now = 0 /\ Heartbeat(t, "cpu10") /\ UNCHANGED reply
    \/ SendCommand("a1", "speak", 0, FALSE) /\ UNCHANGED reply
    \/ \E o \in {"swept", "raises"} : CleanupLoop(o)
    \/ Tick(HeartbeatTimeout + 1) /\ UNCHANGED reply
    \/ Stop

\* time passes, and the loop's sleep ends and its sweep returns again and again
FairSweepLoop ==
    /\ WF_vars(Tick(HeartbeatTimeout + 1) /\ UNCHANGED reply)
    /\ WF_vars(CleanupLoop("swept"))

SpecSweepLoop == InitOpen /\ [][NextSweepLoop]_vars /\ FairSweepLoop

\* the agent's heartbeat tasks under every outcome of the RPCs, with an
\* application that connects a client that is not running, and disconnects
NextHeartbeat ==
    \/ \E c \in ClientConfigs : ClientInit(c)
    \/ \E o \in ConnectOutcomes : ~agent.running /\ Connect("loaded", o)
    \/ ClientDisconnect
    \/ \E i \in TaskIds, o \in SendOutcomes : HeartbeatLoop(i, o)
    \/ \E i \in TaskIds, o \in ConnectOutcomes : TryReconnect(i, "loaded", o)

SpecHeartbeat == InitOpen /\ [][NextHeartbeat]_vars

\* an agent that run() connects once, over a link that goes down and comes
\* back: the RPCs fail exactly while the link is down
NextReconnect ==
    \/ \E c \in ClientConfigs : ClientInit(c)
    \/ \E cr \in Credentials : Created(agent) = {} /\ Connect(cr, ConnectByLink)
    \/ \E i \in TaskIds : HeartbeatLoop(i, SendByLink)
    \/ \E i \in TaskIds, cr \in Credentials : TryReconnect(i, cr, ConnectByLink)
    \/ LinkDown
    \/ LinkUp

\* every task that can run is run, and the link comes back
FairReconnect ==
    /\ \A i \in TaskIds : WF_vars(HeartbeatLoop(i, SendByLink))
    /\ \A i \in TaskIds :
          WF_vars(\E cr \in Credentials : TryReconnect(i, cr, ConnectByLink))
    /\ WF_vars(LinkUp)

SpecReconnect == InitOpen /\ [][NextReconnect]_vars /\ FairReconnect

\* ================================================================ Claims

\* the session tokens that validate_session resolves to agent a
TokensOf(a) == {t \in DOMAIN sessions : ValidateSession(t) = a}

\* C1: in every reachable state at most one session token resolves to any
\* given agent (a second register for the same agentId invalidates the token
\* of the first).
C1_OneLiveTokenPerAgent ==
    \A a \in AgentIds : Cardinality(TokensOf(a)) <= 1

\* the step sweeps a as stale, disconnects a or registers a again
C2_Ends(a) ==
    \/ Sweep /\ a \in StaleClients
    \/ Disconnect(a)
    \/ \E t \in AuthInputs, h \in Hostnames : Authenticate(t, a, h)

\* C2: a token that resolves to agent A keeps resolving to A over every step
\* that is not a sweep of A as stale, a disconnect of A or a register of A.
C2_TokenResolvesUntilEnded ==
    [][\A t \in DOMAIN sessions : \A a \in AgentIds :
          ValidateSession(t) = a => (ValidateSession(t)' = a \/ C2_Ends(a))]_vars

\* C2 witness: a1's token still resolves to a1 after a1 has sent a heartbeat
\* and has a command queued, and a2 has registered and been disconnected.
C2_Witness ==
    /\ {"a1", "a2"} \subseteq DOMAIN clients
    /\ clients["a1"].state = ACTIVE
    /\ clients["a1"].pending_commands # <<>>
    /\ clients["a2"].state = DISCONNECTED
    /\ ValidateSession(clients["a1"].session_token) = "a1"

\* C3: no command entry is returned to its agent by more than one heartbeat,
\* also when heartbeats of the same agent interleave at every lock boundary.
C3_DeliveredAtMostOnce ==
    \A p \in AgentIds \X CmdIds : h_delivered[p] <= 1

\* C3 witness: one heartbeat of a1 has returned command 1 while another
\* heartbeat of a1, validated and updated, has still to drain the queue.
C3_Witness ==
    /\ h_delivered[<<"a1", 1>>] = 1
    /\ \E i \in 1..MaxCalls : calls[i].pc = "drain" /\ calls[i].client_id = "a1"

\* the agents that have the command of this step's send in their queue afterwards
C4_Enqueued == {a \in DOMAIN clients' : nextCmd \in Ids(clients'[a].pending_commands)}

\* C4: a broadcast is queued for exactly the agents that are not DISCONNECTED
\* when it is sent, and it is never returned to an agent that was not among
\* them or that has registered since.
C4_BroadcastIsSnapshot ==
    [][/\ (\E ty \in CommandTypes, p \in Priorities, cb \in BOOLEAN :
              SendCommand("all", ty, p, cb)) => C4_Enqueued = NotDisconnected
       /\ \A c \in DOMAIN h_eligible : \A a \in AgentIds :
              h_delivered'[<<a, c>>] > h_delivered[<<a, c>>] => a \in h_eligible[c]
      ]_vars

\* C4 witness: command 1 was broadcast while only a1 was connected, a1 has
\* received it, and a2, which registered once and later, has sent a heartbeat
\* and has not received it.
C4_Witness ==
    /\ 1 \in DOMAIN h_eligible
    /\ h_eligible[1] = {"a1"}
    /\ h_delivered[<<"a1", 1>>] = 1
    /\ order = <<"a1", "a2">>
    /\ nextToken = 3
    /\ clients["a2"].state = ACTIVE
    /\ h_delivered[<<"a2", 1>>] = 0

\* C5 as claimed: a heartbeat with a valid token returns exactly the commands
\* queued for that agent and not yet delivered, and empties the queue.
C5_ReturnsAllUndelivered ==
    [][\A t \in TokenInputs, s \in Statuses :
          (ValidateSession(t) # None /\ Heartbeat(t, s)) =>
             LET a == ValidateSession(t)
             IN  /\ Ids(HeartbeatReply(t, s).pending_commands)
                       = {c \in h_enqueued[a] : h_delivered[<<a, c>>] = 0}
                 /\ clients'[a].pending_commands = <<>>
      ]_vars

\* C5 amended: a heartbeat with a valid token returns, once each, exactly the
\* commands queued for that agent since its latest register and not yet
\* delivered, and empties the queue; a queue loses entries only in a heartbeat
\* or a register of its agent.
C5_ReturnsOwed ==
    [][/\ \A t \in TokenInputs, s \in Statuses :
            (ValidateSession(t) # None /\ Heartbeat(t, s)) =>
               LET a == ValidateSession(t)
                   pending == HeartbeatReply(t, s).pending_commands
               IN  /\ Ids(pending) = Owed(a)
                   /\ Len(pending) = Cardinality(Owed(a))
                   /\ clients'[a].pending_commands = <<>>
       /\ \A a \in DOMAIN clients :
            ~(Ids(clients[a].pending_commands) \subseteq Ids(clients'[a].pending_commands))
               => \/ \E t \in TokenInputs, s \in Statuses :
                        ValidateSession(t) = a /\ Heartbeat(t, s)
                  \/ \E t \in AuthInputs, h \in Hostnames : Authenticate(t, a, h)
      ]_vars

\* C5 witness: command 1 was queued for a1 and lost when a1 registered again;
\* command 2, queued afterwards, has been returned by a heartbeat.
C5_Witness ==
    /\ h_dropped["a1"] = {1}
    /\ h_delivered[<<"a1", 2>>] = 1
    /\ clients["a1"].pending_commands = <<>>

\* C6: a blocking caller that finds a result returns the result last reported
\* for its command; it times out only if none was reported before its last
\* poll; once it has returned or timed out its outcome never changes; a
\* result reported after the timeout is stored and stays stored.
C6_RunAndWait ==
    [][\A c \in DOMAIN waiters :
          /\ (waiters[c].status = "waiting" /\ waiters'[c].status = "returned")
                => /\ h_reported[c].n > 0
                   /\ waiters'[c].ret = h_reported[c].last
                   /\ waiters'[c].ret # None
          /\ (waiters[c].status = "waiting" /\ waiters'[c].status = "timeout")
                => /\ h_reported[c].n = 0
                   /\ waiters'[c].ret = None
          /\ waiters[c].status # "waiting" => waiters'[c] = waiters[c]
          /\ (waiters[c].status = "timeout" /\ h_reported'[c].n > h_reported[c].n)
                => /\ c \in DOMAIN command_results'
                   /\ command_results'[c] = h_reported'[c].last
          /\ (waiters[c].status = "timeout" /\ c \in DOMAIN command_results)
                => c \in DOMAIN command_results'
      ]_vars

\* C6 witness: the caller of command 1 has returned the reported failure; the
\* caller of command 2 has timed out and a result reported later is stored.
C6_Witness ==
    /\ {1, 2} \subseteq DOMAIN waiters
    /\ waiters[1].status = "returned"
    /\ waiters[1].ret = "fail"
    /\ waiters[2].status = "timeout"
    /\ 2 \in DOMAIN command_results

\* the last heartbeat of a is strictly older than the timeout
C7_Older(a) == clients[a].last_heartbeat + HeartbeatTimeout < now

\* C7: a sweep disconnects every agent that is not DISCONNECTED and whose last
\* heartbeat is strictly older than the timeout, removes it from the active
\* clients and makes its session token fail validation; every other agent
\* keeps its record, and its session token resolves as before.
C7_SweepDisconnectsStale ==
    [][Sweep =>
          \A a \in DOMAIN clients :
             IF clients[a].state # DISCONNECTED /\ C7_Older(a)
             THEN /\ clients'[a].state = DISCONNECTED
                  /\ a \notin Range(GetActiveClients')
                  /\ ValidateSession(clients[a].session_token)' = None
             ELSE /\ clients'[a] = clients[a]
                  /\ ValidateSession(clients[a].session_token)'
                        = ValidateSession(clients[a].session_token)
      ]_vars

\* C7 witness: the last sweep timed out a2, whose token no longer validates,
\* and left a1, active within the timeout and with a command queued, as it was.
C7_Witness ==
    /\ {"a1", "a2"} \subseteq DOMAIN clients
    /\ reply.op = "cleanup_stale_clients"
    /\ reply.timed_out = {"a2"}
    /\ clients["a2"].state = DISCONNECTED
    /\ ValidateSession(clients["a2"].session_token) = None
    /\ clients["a1"].state = ACTIVE
    /\ clients["a1"].pending_commands # <<>>
    /\ ValidateSession(clients["a1"].session_token) = "a1"

\* C8: Authenticate succeeds only with a token of the allow-list or with an
\* empty allow-list; an Authenticate that fails changes no agent record and
\* no session, issues no token and runs no connected-handler.
C8_AuthenticateRejects ==
    [][\A t \in AuthInputs, a \in AgentIds \cup {NoClientId}, h \in Hostnames :
          (Authenticate(t, a, h) /\ reply' = AuthenticateReply(t, a, h)) =>
             /\ reply'.success => (t \in auth_tokens \/ auth_tokens = {})
             /\ ~reply'.success =>
                   /\ UNCHANGED <<clients, order, sessions, nextToken>>
                   /\ reply'.session_token = NoToken
                   /\ reply'.error_message # ""
                   /\ ~reply'.notified
      ]_vars

\* C8 witness: with an allow-list configured and a1 registered, the last
\* Authenticate was rejected for its token.
C8_Witness ==
    /\ auth_tokens # {}
    /\ "a1" \in DOMAIN clients
    /\ reply.op = "authenticate"
    /\ ~reply.success
    /\ reply.error_message = "Invalid authentication token"

\* the token is unknown or invalidated (not in the session table) or
\* superseded (its agent has been issued a newer one)
C9_Invalid(t) ==
    \/ t \notin DOMAIN sessions
    \/ clients[sessions[t]].session_token # t

\* C9: a heartbeat with an unknown, superseded or invalidated session token
\* fails, returns no commands and changes no agent record.
C9_InvalidHeartbeatChangesNothing ==
    [][\A t \in TokenInputs, s \in Statuses :
          (C9_Invalid(t) /\ Heartbeat(t, s)) =>
             /\ ~HeartbeatReply(t, s).success
             /\ HeartbeatReply(t, s).pending_commands = <<>>
             /\ UNCHANGED clients
      ]_vars

\* C10: a report whose session token does not validate is answered with a
\* failure, stores no result and runs no callback.
C10_ReportValidatesSession ==
    [][\A t \in TokenInputs, c \in CmdIds, r \in Results :
          (ValidateSession(t) = None /\ ReportResult(t, c, r)
             /\ reply' = ReportReply(t, c, r)) =>
             /\ ~reply'.received
             /\ ~reply'.callback_invoked
             /\ UNCHANGED command_results
      ]_vars

\* C11: enqueue refuses a DISCONNECTED agent: in no step does queue_command
\* answer ok for an agent that is DISCONNECTED, and no send (to its id or to
\* its hostname) appends to the pending queue of a DISCONNECTED agent.
C11_EnqueueRefusesDisconnected ==
    [][\A a \in DOMAIN clients :
          (/\ clients[a].state = DISCONNECTED
           /\ \E tg \in Targets \ {"all"}, ty \in CommandTypes, p \in Priorities,
                  cb \in BOOLEAN :
                  SendCommand(tg, ty, p, cb) /\ Recipients(tg) = <<a>>)
          => /\ ~QueueCommandReturn(clients, a)
             /\ clients'[a].pending_commands = clients[a].pending_commands
      ]_vars

\* C12: DISCONNECTED is terminal until a fresh register: in a step that is
\* not a register of agent a, a DISCONNECTED agent a stays DISCONNECTED, keeps
\* its last_heartbeat and has no command taken from its queue.
C12_DisconnectedIsTerminal ==
    [][\A a \in DOMAIN clients :
          clients[a].state = DISCONNECTED
          => \/ /\ clients'[a].state = DISCONNECTED
                /\ clients'[a].last_heartbeat = clients[a].last_heartbeat
                /\ Ids(clients[a].pending_commands) \subseteq Ids(clients'[a].pending_commands)
             \/ \E t \in AuthInputs, h \in Hostnames : Authenticate(t, a, h)
      ]_vars


\* positions in dict order of the agents whose hostname is the target, case ignored
C13_Matches(target) ==
    {i \in 1..Len(order) : Lower(clients[order[i]].hostname) = Lower(target)}

\* the agents a targeted send is for: the id match, else the first hostname match
C13_Expected(target) ==
    IF target \in DOMAIN clients THEN {target}
    ELSE IF C13_Matches(target) # {}
    THEN {order[CHOOSE i \in C13_Matches(target) : \A j \in C13_Matches(target) : i <= j]}
    ELSE {}

\* C13: a send whose target is not "all" appends the command to the agent
\* whose id is the target and to no other; without an id match, to the first
\* agent whose hostname matches, case ignored; without any match, to no
\* queue; and it returns a command id never returned before.
C13_TargetResolution ==
    [][\A tg \in Targets \ {"all"}, ty \in CommandTypes, p \in Priorities, cb \in BOOLEAN :
          (SendCommand(tg, ty, p, cb) /\ reply' = SendReply) =>
             /\ \A a \in DOMAIN clients :
                   clients'[a] =
                      IF a \in C13_Expected(tg)
                      THEN [clients[a] EXCEPT !.pending_commands =
                                Append(@, CommandEntry(nextCmd, ty, p))]
                      ELSE clients[a]
             /\ reply'.command_id \notin DOMAIN h_reported
             /\ reply'.command_id \in DOMAIN h_reported'
      ]_vars

\* C13 witness: a2, registered first, and a1 both have the hostname "a1";
\* command 1 went to a1 alone, so it was sent to the id "a1" and the earlier
\* hostname match a2 was passed over.
C13_Witness ==
    /\ order = <<"a2", "a1">>
    /\ clients["a2"].hostname = "a1"
    /\ clients["a1"].hostname = "a1"
    /\ reply = [op |-> "send_command", command_id |-> 1]
    /\ Ids(clients["a1"].pending_commands) = {1}
    /\ clients["a2"].pending_commands = <<>>


\* C14: a callback is invoked exactly once: the first report handled for a
\* command sent with a callback invokes it with that report's result and
\* forgets it; no other report invokes a callback, however the reports
\* interleave.
C14_CallbackExactlyOnce ==
    [][\A c \in DOMAIN h_reported :
          h_reported'[c].n > h_reported[c].n =>
             IF h_reported[c].n = 0 /\ c \in result_callbacks
             THEN /\ h_called'[c] = [n |-> 1, arg |-> h_reported'[c].last]
                  /\ c \notin result_callbacks'
             ELSE /\ h_called'[c] = h_called[c]
                  /\ c \notin result_callbacks'
      ]_vars

\* C14 witness: two reports of command 1 have been handled, "ok" and then
\* "fail"; the callback ran once, with "ok", and is no longer registered.
C14_Witness ==
    /\ h_called[1] = [n |-> 1, arg |-> "ok"]
    /\ h_reported[1] = [n |-> 2, last |-> "fail"]
    /\ command_results[1] = "fail"
    /\ 1 \notin result_callbacks


\* C15: reports are last-write-wins: a report stores its result under its
\* command id and touches no other entry, every stored result is the most
\* recent report of its command, and a report equal to the stored result
\* leaves the result map as it was.
C15_LastWriteWins ==
    [][/\ \A c \in DOMAIN h_reported :
            h_reported'[c].n > h_reported[c].n =>
               /\ command_results' = Put(command_results, c, h_reported'[c].last)
               /\ (c \in DOMAIN command_results /\ command_results[c] = h_reported'[c].last)
                     => command_results' = command_results
       /\ \A c \in DOMAIN command_results' : command_results'[c] = h_reported'[c].last
      ]_vars

\* C15 witness: command 1 was reported "ok" (its callback got that result)
\* and then "fail"; the stored result is "fail".
C15_Witness ==
    /\ reply.op = "report_result"
    /\ h_called[1].arg = "ok"
    /\ h_reported[1] = [n |-> 2, last |-> "fail"]
    /\ 1 \in DOMAIN command_results
    /\ command_results[1] = "fail"


\* C16: an accepted heartbeat of agent a sets a's last_heartbeat to the
\* current time and a's state to ACTIVE, stores the status payload it
\* carries, the empty payload included, and changes no other agent.
C16_HeartbeatStoresStatus ==
    [][\A t \in TokenInputs, s \in Statuses :
          (ValidateSession(t) # None /\ Heartbeat(t, s) /\ reply' = HeartbeatReply(t, s)) =>
             LET a == ValidateSession(t)
             IN  /\ reply'.success
                 /\ clients'[a].last_heartbeat = now
                 /\ clients'[a].state = ACTIVE
                 /\ clients'[a].last_status = s
                 /\ \A b \in DOMAIN clients \ {a} : clients'[b] = clients[b]
      ]_vars


\* (the call of a step is the one the executor records: executor'.call)

\* C17: execute always returns a result with a success flag and never
\* raises: a type without a handler gives the failure "Unknown command
\* type", and a handler that raises gives a failure carrying its error.
C17_ExecuteNeverRaises ==
    [][LET ty == executor'.call.command_type
           p  == executor'.call.payload
       IN  \A o \in OutcomesOf(ty) :
          Execute(ty, p, o) =>
             /\ executor'.result.kind = "return"
             /\ executor'.result.success \in BOOLEAN
             /\ ty \notin HandlerTypes =>
                   /\ ~executor'.result.success
                   /\ executor'.result.error = "Unknown command type"
             /\ (ty \in HandlerTypes /\ Handler(ty, p, o).kind = "raise") =>
                   /\ ~executor'.result.success
                   /\ executor'.result.error = Handler(ty, p, o).error
      ]_vars

\* C17 witness: the shell handler was given a payload that is not a dict and
\* raised; execute returned a failure result carrying the error.
C17_Witness ==
    /\ executor.call.command_type = "shell"
    /\ ~executor.call.payload.is_dict
    /\ executor.result = [kind |-> "return", success |-> FALSE,
                          error |-> "AttributeError", duration_ms |-> TRUE]

\* the command string is some text, the pattern, some text
C18_Matches(command, pattern) ==
    \E pre \in Strings, post \in Strings : command = pre \o pattern \o post

\* the command string contains a pattern of the executor's blocked list
C18_Blocked(command) ==
    \E i \in DOMAIN executor.blocked_commands :
        C18_Matches(command, executor.blocked_commands[i])

C19_CertificateRoundTrip ==
    [][\A p \in CertPaths :
          VerifyCertificate(p) =>
             /\ (/\ p \in CertKinds
                 /\ pki.ca_cert # NoRoot
                 /\ pki.ca_key = pki.ca_cert
                 /\ pki.leaves[p].signed_by = pki.ca_key
                 /\ pki.leaves[p].issuer = pki.ca_cert)
                   => pki'.ret.value = "True"
             /\ p = "foreign" => pki'.ret.value = "False"
             /\ pki.ca_cert = NoRoot => pki'.ret.value = "False"
      ]_vars

\* C20: initialize without force over a stored key and certificate leaves
\* the files as they are and loads them, the same root at every call; it
\* writes a fresh root only when a file is absent or force is set; and it
\* returns success exactly when a key and a certificate are loaded afterwards.
C20_InitializeLoadsOrGenerates ==
    [][\A force \in BOOLEAN, o \in InitOutcomes :
          Initialize(force, o) =>
             /\ LoadsStored(force) =>
                   /\ pki'.key_file = pki.key_file
                   /\ pki'.cert_file = pki.cert_file
                   /\ pki'.ret.value = "True" =>
                         /\ pki'.ca_key = pki.key_file
                         /\ pki'.ca_cert = pki.cert_file
             /\ (pki'.key_file # pki.key_file \/ pki'.cert_file # pki.cert_file)
                   => (force \/ pki.key_file = NoRoot \/ pki.cert_file = NoRoot)
             /\ pki'.ret.value = "True" <=> (pki'.ca_key # NoRoot /\ pki'.ca_cert # NoRoot)
      ]_vars

\* C21: every certificate that generate_client_cert issues has the client_id
\* as its subject's common name, whatever the hostname argument, and is
\* stored under clients/<client_id> with a copy of the root certificate.
C21_ClientCertNamesAgent ==
    [][\A id \in CertIds, h \in CertHosts, o \in GenOutcomes :
          (GenerateCert("client", id, h, o) /\ pki'.ret.value = "paths") =>
             /\ pki'.leaves["client"].cn = id
             /\ pki'.leaves["client"].dir = "clients/" \o id
             /\ pki'.leaves["client"].ca_copy = pki.ca_cert
             /\ pki'.leaves["client"].ca_copy # NoRoot
      ]_vars

\* C22: with TLS enabled, the coordinator has an insecure port and the agent
\* an insecure channel only if the configuration opted in to the fallback,
\* and then the fallback was logged.
C22_InsecureOnlyOnOptIn ==
    /\ (node.tls.enabled /\ node.port = "insecure")
          => (node.tls.allow_insecure /\ node.warned)
    /\ (agent.config.tls_enabled /\ agent.channel = "insecure")
          => (agent.config.allow_insecure /\ agent.warned)

\* C23: no operation of the authority raises; a failing step, the creation
\* of cert_dir included, makes initialize return false, the issuing calls
\* return no paths and verify_certificate return false, as does an authority
\* without a root; an issuing call without a root writes no file.
C23_FailuresAreReturned ==
    [][/\ pki'.ret.value # "raised"
       /\ \A force \in BOOLEAN, o \in {"mkdir_fails", "keygen_fails", "key_load_fails"} :
             (Initialize(force, o) /\ (o = "key_load_fails" <=> LoadsStored(force)))
                => pki'.ret.value = "False"
       /\ \A k \in CertKinds, id \in CertIds, h \in CertHosts, o \in GenOutcomes :
             GenerateCert(k, id, h, o) =>
                /\ (pki.ca_key = NoRoot \/ pki.ca_cert = NoRoot)
                      => (pki'.ret.value = "none_pair" /\ pki'.leaves = pki.leaves)
                /\ o = "fails" => pki'.ret.value = "none_pair"
       /\ \A p \in CertPaths :
             (VerifyCertificate(p) /\ (pki.ca_cert = NoRoot \/ p = "missing"))
                => pki'.ret.value = "False"
      ]_vars

\* C24: in every state, the states between the write of a key and the end
\* of the call included, each private-key file that exists has owner-only
\* permissions.
C24_KeyFilesOwnerOnly ==
    \A f \in KeyFiles : disk.mode[f] \in {"absent", "0600"}

\* C25: however heartbeats and sweeps are ordered, a sweep does not
\* disconnect an agent whose last accepted heartbeat is less than the timeout
\* old, and no agent is in a state other than DISCONNECTED while its session
\* token is gone from the sessions.
C25_HeartbeatVisibleToSweep ==
    /\ [][Sweep => \A a \in DOMAIN clients :
                      now - clients[a].last_heartbeat < HeartbeatTimeout
                         => clients'[a].state = clients[a].state]_vars
    /\ [](\A a \in DOMAIN clients :
             clients[a].state # DISCONNECTED
                => clients[a].session_token \in DOMAIN sessions)

\* C26: a command that is in the queue of an agent when the agent becomes
\* DISCONNECTED is returned by no later heartbeat, to that agent under any
\* registration or to an agent it was not sent to, and the caller that waits
\* for its result gets no result.
C26_DeliveryMiss ==
    [][\A a \in AgentIds : \A c \in h_missed[a] :
          /\ h_delivered'[<<a, c>>] = h_delivered[<<a, c>>]
          /\ \A b \in AgentIds \ {a} :
                c \notin h_enqueued[b] => h_delivered'[<<b, c>>] = 0
          /\ c \in DOMAIN waiters' => waiters'[c].status # "returned"
      ]_vars

\* the agent is DISCONNECTED and the token of its record resolves no more
C27_Swept(a) ==
    /\ a \in DOMAIN clients
    /\ clients[a].state = DISCONNECTED
    /\ clients[a].session_token \notin DOMAIN sessions

\* C27: while the sweep loop runs, an agent that has stopped sending
\* heartbeats is eventually DISCONNECTED with its token removed, also when
\* sweeps have raised.
C27_SilentAgentIsSwept ==
    \A a \in AgentIds :
        (a \in DOMAIN clients /\ node.cleanup = "running") ~> C27_Swept(a)

\* a sweep raised at time 0 and the loop, still running, swept a1 later
C27_Witness ==
    /\ node.last_error = 0
    /\ node.cleanup = "running"
    /\ now > HeartbeatTimeout
    /\ C27_Swept("a1")

\* C28: a heartbeat that raises, with auto_reconnect, puts the agent into
\* RECONNECTING and, after the delay, into connect; once the coordinator can
\* be reached again the agent gets back to CONNECTED with a session token,
\* failed attempts in between being retried.
C28_ReconnectsEventually ==
    /\ [][\A i \in TaskIds :
            (HeartbeatLoop(i, "error") /\ agent.running /\ agent.config.auto_reconnect)
               => (agent'.state = CS_RECONNECTING /\ agent'.tasks[i] = "backoff")]_vars
    /\ (agent.state = CS_RECONNECTING)
          ~> (agent.state = CS_CONNECTED /\ agent.session_token # None)

\* C29: in every state at most one heartbeat loop of the agent is running,
\* whatever errors and reconnections came before, and disconnect leaves no
\* heartbeat loop running.
C29_OneHeartbeatLoop ==
    /\ [](Cardinality(LiveTasks(agent)) <= 1)
    /\ [][ClientDisconnect => LiveTasks(agent') = {}]_vars

\* C30: a registration for an agent that already has a record replaces the
\* record by one with an empty pending queue (state AUTHENTICATED, the new
\* token); the commands that were queued and not yet pulled are dropped, and
\* no heartbeat afterwards, the first one under the new token included,
\* returns a dropped command.
C30_ReRegisterDropsQueue ==
    /\ [][\A a \in DOMAIN clients, h \in Hostnames :
            Authenticate("", a, h) =>
               /\ clients'[a].pending_commands = <<>>
               /\ clients'[a].state = AUTHENTICATED
               /\ clients'[a].session_token = nextToken
               /\ Ids(clients[a].pending_commands) \subseteq h_dropped'[a]]_vars
    /\ [][\A t \in TokenInputs, s \in Statuses :
            (ValidateSession(t) # None /\ Heartbeat(t, s)) =>
               Ids(HeartbeatReply(t, s).pending_commands)
                  \cap h_dropped[ValidateSession(t)] = {}]_vars
    /\ [](\A a \in AgentIds : \A c \in h_dropped[a] : h_delivered[<<a, c>>] = 0)

\* C30 witness: command 1 was queued for a1 under token 1 and not pulled; a1
\* registered again (token 2) and has sent a heartbeat since, which returned
\* nothing: command 1 was never delivered.
C30_Witness ==
    /\ "a1" \in DOMAIN clients
    /\ clients["a1"].session_token = 2
    /\ clients["a1"].state = ACTIVE
    /\ h_dropped["a1"] = {1}
    /\ h_delivered[<<"a1", 1>>] = 0
    /\ h_enqueued["a1"] = {1}

\* C31: in every state, every agent that is not DISCONNECTED has the session
\* token of its record in the sessions, mapped to its own id, and a heartbeat
\* with the token of an agent that get_active_clients lists is accepted for
\* that agent.
C31_CurrentTokenResolves ==
    /\ \A a \in DOMAIN clients :
          clients[a].state # DISCONNECTED
             => /\ clients[a].session_token \in DOMAIN sessions
                /\ sessions[clients[a].session_token] = a
    /\ \A a \in DOMAIN clients :
          clients[a].state \in {ACTIVE, AUTHENTICATED, IDLE}
             => /\ ValidateSession(clients[a].session_token) = a
                /\ HeartbeatReply(clients[a].session_token, "cpu10").success

C33_QueueIsFifo ==
    /\ [][\A t \in TokenInputs, s \in Statuses :
            (ValidateSession(t) # None /\ Heartbeat(t, s)) =>
               HeartbeatReply(t, s).pending_commands
                  = clients[ValidateSession(t)].pending_commands]_vars
    /\ [][\A tg \in Targets, ty \in CommandTypes, p \in Priorities, cb \in BOOLEAN :
            SendCommand(tg, ty, p, cb) =>
               \A a \in DOMAIN clients :
                  \/ clients'[a].pending_commands = clients[a].pending_commands
                  \/ clients'[a].pending_commands
                        = Append(clients[a].pending_commands, CommandEntry(nextCmd, ty, p))]_vars
    /\ [](\A a \in DOMAIN clients :
             \A i, j \in DOMAIN clients[a].pending_commands :
                i < j => clients[a].pending_commands[i].command_id
                            < clients[a].pending_commands[j].command_id)

\* C33 witness: command 1 was sent to a1 with priority 0, then command 2 with
\* priority 1; the heartbeat of a1 returned them in that order.
C33_Witness ==
    /\ reply = [op |-> "heartbeat", success |-> TRUE,
                pending_commands |-> <<CommandEntry(1, "speak", 0),
                                       CommandEntry(2, "speak", 1)>>]
    /\ clients["a1"].pending_commands = <<>>
    /\ h_delivered[<<"a1", 1>>] = 1
    /\ h_delivered[<<"a1", 2>>] = 1

\* C34: when the callback of a reported command raises, the report still
\* completes: the result is stored under the command id, the callback is no
\* longer registered, every command-result handler is called and the agent
\* gets the acknowledgement.
C34_CallbackErrorIsContained ==
    [][\A c \in result_callbacks, r \in Results :
          (ReportResult(NoToken, c, r) /\ reply'.op = "report_result"
             /\ reply'.callback_raised)
             => /\ c \in DOMAIN command_results' /\ command_results'[c] = r
                /\ c \notin result_callbacks'
                /\ h_called'[c].n = h_called[c].n + 1
                /\ reply'.notified = node.on_command_result
                /\ reply'.received
      ]_vars

\* C34 witness: two handlers are registered, the second of which raises;
\* command 1 had a callback, which raised when result "ok" was reported; the
\* result is stored, both handlers were called and the report was
\* acknowledged.
C34_Witness ==
    /\ reply = [op |-> "report_result", received |-> TRUE, callback_invoked |-> TRUE,
                callback_raised |-> TRUE, notified |-> <<"returns", "raises">>,
                handler_errors |-> 1]
    /\ 1 \in DOMAIN command_results /\ command_results[1] = "ok"
    /\ 1 \notin result_callbacks
    /\ h_called[1].n = 1

\* C35: when stop has completed, every agent of the agent table is
\* DISCONNECTED, get_active_clients lists nobody, the cleanup task has ended
\* and no session token issued before the stop is in the sessions.
C35_StopEndsEverySession ==
    [][Stop => /\ \A a \in DOMAIN clients' : clients'[a].state = DISCONNECTED
               /\ GetActiveClients' = <<>>
               /\ node'.cleanup = "done"
               /\ ~node'.running
               /\ \A t \in 1..(nextToken - 1) : t \notin DOMAIN sessions'
      ]_vars

\* C36: initialize with force over a stored root writes and loads a fresh
\* root, which signed none of the certificates issued before; afterwards
\* verify_certificate returns false for a certificate issued under the
\* previous root and true for a certificate issued under the new one.
C36_ForceReplacesRoot ==
    /\ [][(Initialize(TRUE, "ok") /\ pki.cert_file # NoRoot) =>
             /\ pki'.ca_cert # pki.cert_file
             /\ pki'.ca_key = pki'.ca_cert
             /\ pki'.key_file = pki'.ca_key /\ pki'.cert_file = pki'.ca_cert
             /\ \A p \in CertKinds : pki'.leaves[p].signed_by # pki'.ca_key]_vars
    /\ [][\A p \in CertKinds :
            (VerifyCertificate(p) /\ pki.forced /\ pki.leaves[p] # NoCert) =>
               (pki'.ret.value = "True" <=> pki.leaves[p].signed_by = pki.ca_key)]_vars

====
